---- MODULE Spec2Model ----
(***************************************************************************)
(* Model of ml_models/data_type_conversions.py:                            *)
(*   - the symbol table ALL_SYMBOLS and the class Processor                *)
(*     (text_to_sequence),                                                 *)
(*   - the fixed-length framing of the encoded text in text_to_audio,      *)
(*   - the class DataTypeConversions: eight lazily loaded model fields,    *)
(*     the eight load_X methods and the eight conversions.                 *)
(*                                                                         *)
(* A Python str is modelled as a sequence of one-character strings, a      *)
(* Python list of ints as a sequence of integers (Python index i is TLA+   *)
(* index i + 1), a dict as a function whose DOMAIN is the set of keys.     *)
(***************************************************************************)
EXTENDS Integers, Sequences, FiniteSets, TLC

VARIABLES
    symbol_to_id,   \* Processor.symbol_to_id
    text,           \* argument of the last text_to_sequence call
    seq,            \* list returned by the last text_to_sequence call
    called,         \* TRUE once text_to_sequence has been called
    probe,          \* a text chosen at construction time (history)
    probePhase,     \* history: 0 probe not called yet, 1 called, 2 another text
                    \* called since, 3 probe called again after that
    probeSeq,       \* what the first text_to_sequence(probe) returned
    input_ids,      \* text_to_audio: input_ids after line 201
    framed,         \* text_to_audio: input_ids after line 204
    framedDone,     \* TRUE once line 204 has run
    models,         \* DataTypeConversions: the eight model fields
    loaderCalls,    \* per field: calls of the external loader so far
    loaderOk,       \* per field: calls of the external loader that succeeded
    last,           \* record of the last completed call on the instance
    pc,             \* per thread: position inside load_X
    tfield,         \* per thread: the field its load_X works on
    tret            \* per thread: what its last load_X returned

vars == <<symbol_to_id, text, seq, called, probe, probePhase, probeSeq,
          input_ids, framed, framedDone,
          models, loaderCalls, loaderOk, last, pc, tfield, tret>>

encVars == <<symbol_to_id, text, seq, called, probe, probePhase, probeSeq>>
frameVars == <<input_ids, framed, framedDone>>
dtcVars == <<models, loaderCalls, loaderOk, last>>
thrVars == <<pc, tfield, tret>>

Min(a, b) == IF a <= b THEN a ELSE b
Max(a, b) == IF a >= b THEN a ELSE b
Range(s) == {s[i] : i \in 1..Len(s)}

(***************************************************************************)
(* The vocabulary (lines 12-21).                                           *)
(***************************************************************************)
_pad == "pad"
_eos == "eos"
\* list("!'(),.? ")
_punctuation == <<"!", "'", "(", ")", ",", ".", "?", " ">>
\* list("-")
_special == <<"-">>
\* list("ABCDEFGHIJKLMNOPQRSTUVWXYZabcdefghijklmnopqrstuvwxyz")
_letters ==
    <<"A", "B", "C", "D", "E", "F", "G", "H", "I", "J", "K", "L", "M",
      "N", "O", "P", "Q", "R", "S", "T", "U", "V", "W", "X", "Y", "Z",
      "a", "b", "c", "d", "e", "f", "g", "h", "i", "j", "k", "l", "m",
      "n", "o", "p", "q", "r", "s", "t", "u", "v", "w", "x", "y", "z">>

ALL_SYMBOLS == <<_pad>> \o _special \o _punctuation \o _letters \o <<_eos>>

(***************************************************************************)
(* Processor (lines 23-28).                                                *)
(***************************************************************************)
\* A dict comprehension over enumerate() numbering from 1 instead of 0.
Processor__init__from1 ==
    [s \in Range(ALL_SYMBOLS) |->
        CHOOSE i \in 1..Len(ALL_SYMBOLS) :
            /\ ALL_SYMBOLS[i] = s
            /\ \A j \in 1..Len(ALL_SYMBOLS) : ALL_SYMBOLS[j] = s => j <= i]

\* {s: i for i, s in enumerate(ALL_SYMBOLS)}: a later occurrence of a key
\* overwrites an earlier one, and enumerate counts from 0.
Processor__init__ ==
    [s \in Range(ALL_SYMBOLS) |->
        (CHOOSE i \in 1..Len(ALL_SYMBOLS) :
            /\ ALL_SYMBOLS[i] = s
            /\ \A j \in 1..Len(ALL_SYMBOLS) : ALL_SYMBOLS[j] = s => j <= i) - 1]

\* dict.get(key, default)
DictGet(d, key, default) == IF key \in DOMAIN d THEN d[key] ELSE default

\* A comprehension that filters the characters the dict does not know.
RECURSIVE text_to_sequence_skip_unknown(_, _)
text_to_sequence_skip_unknown(d, t) ==
    IF t = <<>> THEN <<>>
    ELSE (IF Head(t) \in DOMAIN d THEN <<d[Head(t)]>> ELSE <<>>)
         \o text_to_sequence_skip_unknown(d, Tail(t))

\* The fallback taken from the other sentinel.
text_to_sequence_eos_default(d, t) ==
    [i \in 1..Len(t) |-> DictGet(d, t[i], d[_eos])]

\* The fallback is a fresh "unknown" id one past the table.
text_to_sequence_unk_is_size(d, t) ==
    [i \in 1..Len(t) |-> DictGet(d, t[i], Cardinality(DOMAIN d))]

\* [self.symbol_to_id.get(s, self.symbol_to_id[_pad]) for s in text]
text_to_sequence(d, t) ==
    [i \in 1..Len(t) |-> DictGet(d, t[i], d[_pad])]

(***************************************************************************)
(* Inputs of the encoder: every one-character text over the vocabulary's   *)
(* characters and some characters outside it, and every text of up to      *)
(* MaxLen characters over a small alphabet.                                *)
(***************************************************************************)
MaxLen == 4
VocabChars == Range(_special) \cup Range(_punctuation) \cup Range(_letters)
OtherChars == {"1", "0", ";", ":", "_"}
SmallChars == {"Z", "1"}
SeqsUpTo(S, n) == UNION {[1..k -> S] : k \in 0..n}
Texts == SeqsUpTo(SmallChars, MaxLen)
          \cup {<<c>> : c \in VocabChars \cup OtherChars}

(***************************************************************************)
(* text_to_audio, lines 199-204: the text is encoded and framed to a list  *)
(* of FrameLen IDs.  text holds the string GermanTransliterate returned    *)
(* (an external library: any string).                                      *)
(***************************************************************************)
FrameLen == 9
MaxFrameText == 12
FrameTexts == SeqsUpTo(SmallChars, MaxFrameText)

\* Python's lst[:n] for n >= 0
SliceTo(lst, n) == SubSeq(lst, 1, Min(Len(lst), n))
\* Python's [x] * k: the empty list when k <= 0
Repeat(x, k) == [i \in 1..Max(k, 0) |-> x]

\* Padding without the slice.
FrameInputIdsNoSlice(ids) == ids \o Repeat(0, FrameLen - Len(ids))

\* input_ids[:9] + [0] * (9 - len(input_ids))
FrameInputIds(ids) == SliceTo(ids, FrameLen) \o Repeat(0, FrameLen - Len(ids))

InitFrame ==
    /\ input_ids = <<>>
    /\ framed = <<>>
    /\ framedDone = FALSE

\* Lines 200-204 on the transliterated text.
text_to_audio_preprocess ==
    /\ ~framedDone
    /\ input_ids' = text_to_sequence(Processor__init__, text)
    /\ framed' = FrameInputIds(input_ids')
    /\ framedDone' = TRUE
    /\ UNCHANGED <<encVars, dtcVars, thrVars>>

(***************************************************************************)
(* DataTypeConversions (lines 30-333).  A model object is identified by    *)
(* its field and the ordinal of the loader call that made it.  The         *)
(* external calls (hub.load, hub.KerasLayer, inference, numpy conversion,  *)
(* file reads) either succeed or raise an Exception: which one is an input *)
(* of the action.                                                          *)
(***************************************************************************)
None == [none |-> TRUE]
NoValue == [novalue |-> TRUE]
Fields == {"text_to_text_model", "text_to_image_model", "text_to_video_model",
           "text_to_audio_model", "image_to_text_model", "image_to_image_model",
           "image_to_video_model", "image_captioning_model"}
ArgTypes == {"str", "Tensor", "int"}
MaxLoaderCalls == 2

Call(op, field, arg, outcome, fail, loaded, ret, value) ==
    [op |-> op, field |-> field, arg |-> arg, outcome |-> outcome,
     fail |-> fail, loaded |-> loaded, ret |-> ret, value |-> value]
NoCall == Call("none", "-", "-", "-", "none", {}, NoValue, "-")

\* DataTypeConversions.__init__
DataTypeConversions__init__ ==
    /\ models = [f \in Fields |-> None]
    /\ loaderCalls = [f \in Fields |-> 0]
    /\ loaderOk = [f \in Fields |-> 0]
    /\ last = NoCall

RECURSIVE SumOver(_, _)
SumOver(fn, S) ==
    IF S = {} THEN 0
    ELSE LET x == CHOOSE y \in S : TRUE IN fn[x] + SumOver(fn, S \ {x})

\* The instance's fields (with the loader-call counts) as one value.
Cur == [models |-> models, calls |-> loaderCalls, ok |-> loaderOk]

\* The try block of load_X (lines 44-47 and alike): the external loader
\* is called; the model it returns is assigned to the field, an Exception
\* it raises is printed and the field is left as it is.
loader_call(st, f, loads) ==
    LET k == st.calls[f] + 1 IN
    [models |-> IF loads THEN [st.models EXCEPT ![f] = [field |-> f, n |-> k]]
                ELSE st.models,
     calls |-> [st.calls EXCEPT ![f] = k],
     ok |-> [st.ok EXCEPT ![f] = @ + (IF loads THEN 1 ELSE 0)]]

\* A load_X without the "is None" test: the loader runs on every call.
load_model_always(st, f, loads) == loader_call(st, f, loads)

\* load_X for the field f (the eight methods of lines 42-104 have this one
\* shape): the fields after the call; the method returns the field.  loads
\* tells whether the external loader returns a model or raises.
load_model(st, f, loads) ==
    IF st.models[f] # None THEN st ELSE loader_call(st, f, loads)

\* An isinstance test that lets everything through.
isinstance_any(arg) == TRUE
\* isinstance(text, str)
isinstance_str(arg) == arg = "str"
\* isinstance(image, tf.Tensor)
isinstance_Tensor(arg) == arg = "Tensor"

\* The call op(arg) ends in the fields st with the given outcome.
Complete(op, field, arg, st, outcome, fail, value) ==
    /\ SumOver(st.calls, Fields) <= MaxLoaderCalls
    /\ models' = st.models
    /\ loaderCalls' = st.calls
    /\ loaderOk' = st.ok
    /\ last' = Call(op, field, arg, outcome, fail,
                    {f \in Fields : st.calls[f] # loaderCalls[f]},
                    IF op = "load" THEN st.models[field] ELSE NoValue, value)
    /\ UNCHANGED <<encVars, frameVars, thrVars>>

\* A direct call of load_X.
load_X(f, loads) ==
    /\ f \in Fields
    /\ Complete("load", f, "-", load_model(Cur, f, loads), "returned", "none",
                "-")

\* raise ValueError(...) before anything else is done
RaiseValueError(op, arg) ==
    Complete(op, "-", arg, Cur, "ValueError", "none", "-")

\* lines 106-147
text_to_text(arg, detailed, loads, failAt) ==
    LET f == "text_to_text_model"
        st == load_model(Cur, f, loads)
        model == st.models[f]
    IN  IF ~isinstance_str(arg) THEN RaiseValueError("text_to_text", arg)
        ELSE IF model = None
        THEN Complete("text_to_text", f, arg, st, "placeholder", "load", "")
        ELSE IF failAt \in {"infer", "numpy"}
        THEN Complete("text_to_text", f, arg, st, "placeholder", failAt, "")
        ELSE IF detailed /\ failAt = "stats"
        THEN Complete("text_to_text", f, arg, st, "returned", "stats",
                      "Embeddings")
        ELSE Complete("text_to_text", f, arg, st, "returned", "none",
                      IF detailed THEN "Embeddings, Mean, Variance"
                      ELSE "Embeddings")

\* lines 149-166
text_to_image(arg, loads, failAt) ==
    LET f == "text_to_image_model"
        st == load_model(Cur, f, loads)
        model == st.models[f]
    IN  IF ~isinstance_str(arg) THEN RaiseValueError("text_to_image", arg)
        ELSE IF model = None
        THEN Complete("text_to_image", f, arg, st, "placeholder", "load",
                      "zeros[1,256,256,3]")
        ELSE IF failAt = "infer"
        THEN Complete("text_to_image", f, arg, st, "placeholder", "infer",
                      "zeros[1,256,256,3]")
        ELSE Complete("text_to_image", f, arg, st, "returned", "none",
                      "image")

\* lines 168-186
text_to_video(arg, loads, failAt) ==
    LET f == "text_to_video_model"
        st == load_model(Cur, f, loads)
        model == st.models[f]
    IN  IF ~isinstance_str(arg) THEN RaiseValueError("text_to_video", arg)
        ELSE IF model = None
        THEN Complete("text_to_video", f, arg, st, "placeholder", "load",
                      "zeros[1,30,256,256,3]")
        ELSE IF failAt = "infer"
        THEN Complete("text_to_video", f, arg, st, "placeholder", "infer",
                      "zeros[1,30,256,256,3]")
        ELSE Complete("text_to_video", f, arg, st, "returned", "none",
                      "video")

\* lines 188-233.  Lines 199-205 (text_to_audio_preprocess) build the input
\* tensor and decide no branch.  Lines 209-215 read the config file, build
\* the vocoder and load its weights outside the try block: setup tells which
\* of them raises, if any.
text_to_audio(arg, loads, setup, failAt) ==
    LET f == "text_to_audio_model"
        st == load_model(Cur, f, loads)
        tacotron2 == st.models[f]
    IN  IF ~isinstance_str(arg) THEN RaiseValueError("text_to_audio", arg)
        ELSE IF setup # "ok"
        THEN Complete("text_to_audio", f, arg, st, "raised", setup, "-")
        ELSE IF tacotron2 = None
        THEN Complete("text_to_audio", f, arg, st, "placeholder", "load",
                      "zeros[1,16000]")
        ELSE IF failAt = "infer"
        THEN Complete("text_to_audio", f, arg, st, "placeholder", "infer",
                      "zeros[1,16000]")
        ELSE Complete("text_to_audio", f, arg, st, "returned", "none",
                      "audio[1,16000]")

\* lines 235-259
image_to_text(arg, loads, failAt) ==
    LET f == "image_to_text_model"
        st == load_model(Cur, f, loads)
        model == st.models[f]
    IN  IF ~isinstance_Tensor(arg) THEN RaiseValueError("image_to_text", arg)
        ELSE IF model = None
        THEN Complete("image_to_text", f, arg, st, "placeholder", "load", "")
        ELSE IF failAt \in {"infer", "numpy"}
        THEN Complete("image_to_text", f, arg, st, "placeholder", failAt, "")
        ELSE Complete("image_to_text", f, arg, st, "returned", "none",
                      "str(top_prediction)")

\* lines 261-283
image_to_image(arg, loads, failAt) ==
    LET f == "image_to_image_model"
        st == load_model(Cur, f, loads)
        model == st.models[f]
    IN  IF ~isinstance_Tensor(arg) THEN RaiseValueError("image_to_image", arg)
        ELSE IF model = None
        THEN Complete("image_to_image", f, arg, st, "placeholder", "load",
                      "zeros(image.shape)")
        ELSE IF failAt \in {"infer", "numpy"}
        THEN Complete("image_to_image", f, arg, st, "placeholder", failAt,
                      "zeros(image.shape)")
        ELSE Complete("image_to_image", f, arg, st, "returned", "none",
                      "stylized image")

\* lines 285-303
image_to_video(arg, loads, failAt) ==
    LET f == "image_to_video_model"
        st == load_model(Cur, f, loads)
        model == st.models[f]
    IN  IF ~isinstance_Tensor(arg) THEN RaiseValueError("image_to_video", arg)
        ELSE IF model = None
        THEN Complete("image_to_video", f, arg, st, "placeholder", "load",
                      "zeros[1,30,256,256,3]")
        ELSE IF failAt = "infer"
        THEN Complete("image_to_video", f, arg, st, "placeholder", "infer",
                      "zeros[1,30,256,256,3]")
        ELSE Complete("image_to_video", f, arg, st, "returned", "none",
                      "video")

\* lines 305-333: the captioning model first; the text-to-audio model is
\* loaded only when the caption was made.
image_to_audio(arg, loadsCap, loadsTts, failAt) ==
    LET fc == "image_captioning_model"
        fa == "text_to_audio_model"
        st1 == load_model(Cur, fc, loadsCap)
        captioning_model == st1.models[fc]
        st2 == load_model(st1, fa, loadsTts)
        model == st2.models[fa]
    IN  IF ~isinstance_Tensor(arg) THEN RaiseValueError("image_to_audio", arg)
        ELSE IF captioning_model = None
        THEN Complete("image_to_audio", fc, arg, st1, "placeholder", "load",
                      "zeros[1,16000]")
        ELSE IF failAt = "caption"
        THEN Complete("image_to_audio", fc, arg, st1, "placeholder", "infer",
                      "zeros[1,16000]")
        ELSE IF model = None
        THEN Complete("image_to_audio", fa, arg, st2, "placeholder", "load",
                      "zeros[1,16000]")
        ELSE IF failAt = "infer"
        THEN Complete("image_to_audio", fa, arg, st2, "placeholder", "infer",
                      "zeros[1,16000]")
        ELSE Complete("image_to_audio", fa, arg, st2, "returned", "none",
                      "audio")


\* No thread is modelled when the calls come one after another.
InitThreads ==
    /\ pc = <<>>
    /\ tfield = <<>>
    /\ tret = <<>>

\* History of the calls with the text probe.
NextPhase(phase, isProbe) ==
    CASE phase = 0 -> IF isProbe THEN 1 ELSE 0
      [] phase = 1 -> IF isProbe THEN 1 ELSE 2
      [] phase = 2 -> IF isProbe THEN 3 ELSE 2
      [] OTHER -> 3

\* A text_to_sequence that remembers unknown characters in the table.
CallTextToSequenceRemember(t) ==
    /\ text' = t
    /\ seq' = text_to_sequence(symbol_to_id, t)
    /\ called' = TRUE
    /\ symbol_to_id' =
         [s \in DOMAIN symbol_to_id \cup Range(t) |->
             DictGet(symbol_to_id, s, symbol_to_id[_pad])]
    /\ probePhase' = NextPhase(probePhase, t = probe)
    /\ probeSeq' = IF t = probe /\ probePhase = 0 THEN seq' ELSE probeSeq
    /\ UNCHANGED <<probe, frameVars, dtcVars, thrVars>>

\* One call processor.text_to_sequence(t); dict.get does not write the dict.
CallTextToSequence(t) ==
    /\ text' = t
    /\ seq' = text_to_sequence(symbol_to_id, t)
    /\ called' = TRUE
    /\ symbol_to_id' = symbol_to_id
    /\ probePhase' = NextPhase(probePhase, t = probe)
    /\ probeSeq' = IF t = probe /\ probePhase = 0 THEN seq' ELSE probeSeq
    /\ UNCHANGED <<probe, frameVars, dtcVars, thrVars>>

\* processor = Processor(), before any call.
Init ==
    /\ symbol_to_id = Processor__init__
    /\ text = <<>>
    /\ seq = <<>>
    /\ called = FALSE
    /\ probe \in Texts
    /\ probePhase = 0
    /\ probeSeq = <<>>
    /\ InitFrame
    /\ DataTypeConversions__init__
    /\ InitThreads

Next == \E t \in Texts : CallTextToSequence(t)

Spec == Init /\ [][Next]_vars

(***************************************************************************)
(* load_X called by several threads on one instance.  The method holds no  *)
(* lock; a thread can be preempted between the test of line 43, the        *)
(* loader call with its assignment (line 45) and the return (line 48).     *)
(***************************************************************************)
NumThreads == 2
Threads == 1..NumThreads

\* Loader calls made so far or about to be made by a thread past the test.
CallsCommitted ==
    SumOver(loaderCalls, Fields) + Cardinality({t \in DOMAIN pc : pc[t] = "try"})

\* "if self.X is None:" evaluated by thread t entering load_X for field f
load_X_test(t, f) ==
    /\ pc[t] = "idle"
    /\ models[f] = None => CallsCommitted < MaxLoaderCalls
    /\ pc' = [pc EXCEPT ![t] = IF models[f] = None THEN "try" ELSE "return"]
    /\ tfield' = [tfield EXCEPT ![t] = f]
    /\ UNCHANGED <<tret, models, loaderCalls, loaderOk, last, encVars, frameVars>>

\* "try: self.X = hub.load(...)" / "except Exception": the loader returns a
\* new model, which is stored whatever the field holds by now, or it raises.
load_X_try(t, loads) ==
    /\ pc[t] = "try"
    /\ LET f == tfield[t]
           st == loader_call(Cur, f, loads)
       IN  /\ models' = st.models
           /\ loaderCalls' = st.calls
           /\ loaderOk' = st.ok
    /\ pc' = [pc EXCEPT ![t] = "return"]
    /\ UNCHANGED <<tfield, tret, last, encVars, frameVars>>

\* "return self.X"
load_X_return(t) ==
    /\ pc[t] = "return"
    /\ tret' = [tret EXCEPT ![t] = models[tfield[t]]]
    /\ pc' = [pc EXCEPT ![t] = "idle"]
    /\ UNCHANGED <<tfield, models, loaderCalls, loaderOk, last, encVars, frameVars>>

InitConc ==
    /\ symbol_to_id = <<>>
    /\ text = <<>>
    /\ seq = <<>>
    /\ called = FALSE
    /\ probe = <<>>
    /\ probePhase = 0
    /\ probeSeq = <<>>
    /\ InitFrame
    /\ DataTypeConversions__init__
    /\ pc = [t \in Threads |-> "idle"]
    /\ tfield = [t \in Threads |-> "text_to_text_model"]
    /\ tret = [t \in Threads |-> NoValue]

NextConc ==
    \E t \in Threads :
        \/ \E f \in Fields : load_X_test(t, f)
        \/ \E loads \in BOOLEAN : load_X_try(t, loads)
        \/ load_X_return(t)

SpecConc == InitConc /\ [][NextConc]_vars

\* One DataTypeConversions instance, its methods called one after another.
\* No Processor exists outside a text_to_audio call.
InitSeq ==
    /\ symbol_to_id = <<>>
    /\ text = <<>>
    /\ seq = <<>>
    /\ called = FALSE
    /\ probe = <<>>
    /\ probePhase = 0
    /\ probeSeq = <<>>
    /\ InitFrame
    /\ DataTypeConversions__init__
    /\ InitThreads

NextSeq ==
    \/ \E f \in Fields, loads \in BOOLEAN : load_X(f, loads)
    \/ \E arg \in ArgTypes, detailed \in BOOLEAN, loads \in BOOLEAN,
          failAt \in {"none", "infer", "numpy", "stats"} :
            text_to_text(arg, detailed, loads, failAt)
    \/ \E arg \in ArgTypes, loads \in BOOLEAN, failAt \in {"none", "infer"} :
            \/ text_to_image(arg, loads, failAt)
            \/ text_to_video(arg, loads, failAt)
            \/ image_to_video(arg, loads, failAt)
    \/ \E arg \in ArgTypes, loads \in BOOLEAN,
          setup \in {"ok", "config_read", "weights_load"},
          failAt \in {"none", "infer"} :
            text_to_audio(arg, loads, setup, failAt)
    \/ \E arg \in ArgTypes, loads \in BOOLEAN,
          failAt \in {"none", "infer", "numpy"} :
            \/ image_to_text(arg, loads, failAt)
            \/ image_to_image(arg, loads, failAt)
    \/ \E arg \in ArgTypes, loadsCap \in BOOLEAN, loadsTts \in BOOLEAN,
          failAt \in {"none", "caption", "infer"} :
            image_to_audio(arg, loadsCap, loadsTts, failAt)

SpecSeq == InitSeq /\ [][NextSeq]_vars

\* text_to_audio up to line 204, for every transliterated text.
InitFraming ==
    /\ symbol_to_id = <<>>
    /\ text \in FrameTexts
    /\ seq = <<>>
    /\ called = FALSE
    /\ probe = <<>>
    /\ probePhase = 0
    /\ probeSeq = <<>>
    /\ InitFrame
    /\ DataTypeConversions__init__
    /\ InitThreads

NextFraming == text_to_audio_preprocess

SpecFraming == InitFraming /\ [][NextFraming]_vars

(***************************************************************************)
(* Claims about Processor, checked under Spec.                             *)
(***************************************************************************)
InVocabulary(c) == \E i \in 1..Len(ALL_SYMBOLS) : ALL_SYMBOLS[i] = c
\* 0-based position of c in the concatenation of lines 19-21
PositionOf(c) == (CHOOSE i \in 1..Len(ALL_SYMBOLS) : ALL_SYMBOLS[i] = c) - 1

\* C1: text_to_sequence(s) has exactly len(s) elements, element i is the ID
\* that the character s[i] gets when encoded alone (order kept, nothing
\* skipped or duplicated), and the empty text gives the empty list.
C1_SameLengthInOrder ==
    called =>
        /\ Len(seq) = Len(text)
        /\ DOMAIN seq = 1..Len(text)
        /\ \A i \in 1..Len(text) :
              <<seq[i]>> = text_to_sequence(symbol_to_id, <<text[i]>>)
        /\ (text = <<>> => seq = <<>>)

C1_Witness ==
    called /\ text = <<"Z", "1", "Z", "Z">> /\ seq = <<35, 0, 35, 35>>

\* C2: a single character of the vocabulary is encoded as its 0-based
\* position in [pad] + '-' + "!'(),.? " + A-Z + a-z + [eos]: '-' is 1, the
\* punctuation and the space are 2..9, 'A' is 10, 'Z' is 35, 'z' is 61; no
\* symbol occurs twice in the vocabulary.
C2_VocabularyPosition ==
    /\ \A i, j \in 1..Len(ALL_SYMBOLS) :
          ALL_SYMBOLS[i] = ALL_SYMBOLS[j] => i = j
    /\ (called /\ Len(text) = 1 /\ InVocabulary(text[1])) =>
          /\ seq = <<PositionOf(text[1])>>
          /\ (text[1] = "-" => seq = <<1>>)
          /\ (text[1] \in Range(_punctuation) => seq[1] \in 2..9)
          /\ (text[1] = "A" => seq = <<10>>)
          /\ (text[1] = "Z" => seq = <<35>>)
          /\ (text[1] = "z" => seq = <<61>>)

C2_Witness == called /\ text = <<"z">> /\ seq = <<61>>

\* C3: a character outside the vocabulary is encoded as 0, the ID of the
\* padding sentinel, at its own position; the character is not dropped, so
\* "Z1" gives [35, 0].
C3_UnknownIsPad ==
    called =>
        /\ Len(seq) = Len(text)
        /\ \A i \in 1..Len(text) :
              ~InVocabulary(text[i]) => (i \in DOMAIN seq /\ seq[i] = 0)
        /\ PositionOf(_pad) = 0
        /\ (text = <<"Z", "1">> => seq = <<35, 0>>)

C3_Witness == called /\ text = <<"Z", "1">> /\ seq = <<35, 0>>

\* C4: every ID returned is in [0, 63), 63 being len(ALL_SYMBOLS); the
\* end-of-sequence ID 62 is never returned, and 0 is returned only for a
\* character outside the vocabulary.
C4_IdsInRange ==
    /\ Len(ALL_SYMBOLS) = 63
    /\ PositionOf(_eos) = 62
    /\ called =>
          \A i \in DOMAIN seq :
              /\ seq[i] \in 0..(Len(ALL_SYMBOLS) - 1)
              /\ seq[i] # 62
              /\ (seq[i] = 0 => (i \in DOMAIN text /\ ~InVocabulary(text[i])))

C4_Witness ==
    called /\ Len(seq) >= 2 /\ 0 \in Range(seq) /\ 35 \in Range(seq)

\* C6: symbol_to_id is what the constructor built and no text_to_sequence
\* call changes it; a second call with the same text returns the same list,
\* whatever was called in between.
C6_MappingImmutable ==
    /\ symbol_to_id = Processor__init__
    /\ (called /\ probePhase \in {1, 3} /\ text = probe) => seq = probeSeq

C6_Witness ==
    /\ probePhase = 3
    /\ text = probe
    /\ \E i \in DOMAIN probe : ~InVocabulary(probe[i])
    /\ seq = probeSeq

(***************************************************************************)
(* Claim about the framing, checked under SpecFraming.                     *)
(***************************************************************************)
\* C5: the framing turns the encoded list of any length n into exactly 9
\* IDs: the first 9 of them when n >= 9 (the rest dropped, nothing
\* appended), the n IDs followed by 9 - n zeros when n < 9; the first
\* min(n, 9) positions are unchanged.
C5_FramedToNine ==
    framedDone =>
        LET n == Len(input_ids) IN
        /\ Len(framed) = 9
        /\ DOMAIN framed = 1..9
        /\ \A i \in 1..9 :
              framed[i] = IF i <= n THEN input_ids[i] ELSE 0
        /\ (n >= 9 => framed = SubSeq(input_ids, 1, 9))
        /\ (n < 9 => /\ SubSeq(framed, 1, n) = input_ids
                      /\ \A i \in (n + 1)..9 : framed[i] = 0)

C5_Witness ==
    /\ framedDone
    /\ Len(input_ids) = 12
    /\ input_ids[10] = 35
    /\ framed = SubSeq(input_ids, 1, 9)
    /\ Len(framed) = 9

(***************************************************************************)
(* Claims about DataTypeConversions, checked under SpecSeq and SpecConc.   *)
(***************************************************************************)
TextOps == {"text_to_text", "text_to_image", "text_to_video", "text_to_audio"}
ImageOps == {"image_to_text", "image_to_image", "image_to_video",
             "image_to_audio"}
Accepted(op, arg) ==
    \/ op \in TextOps /\ arg = "str"
    \/ op \in ImageOps /\ arg = "Tensor"
PlaceholderOf(op) ==
    CASE op \in {"text_to_text", "image_to_text"} -> ""
      [] op = "text_to_image" -> "zeros[1,256,256,3]"
      [] op \in {"text_to_video", "image_to_video"} -> "zeros[1,30,256,256,3]"
      [] op \in {"text_to_audio", "image_to_audio"} -> "zeros[1,16000]"
      [] OTHER -> "zeros(image.shape)"

\* C7: with an argument of the accepted type, every conversion returns its
\* placeholder whenever model loading, a set-up step (text_to_audio's
\* config-file read and vocoder weight loading included) or inference
\* fails, and no exception reaches the caller.
C7_FailuresMasked ==
    (last.op \in TextOps \cup ImageOps /\ Accepted(last.op, last.arg)) =>
        /\ last.outcome \in {"returned", "placeholder"}
        /\ last.fail \in {"load", "config_read", "weights_load", "infer", "numpy"}
              => (last.outcome = "placeholder"
                  /\ last.value = PlaceholderOf(last.op))

\* C8: in a sequence of calls on one instance, load_X calls the loader only
\* when its field is None; a field that holds a model is never reset or
\* replaced, each later load_X returns that object without calling the
\* loader (at most one successful load per field); a failed load does not
\* raise, leaves the field None and returns None, and the next load_X calls
\* the loader again.
C8_LoadIfAbsentThenReuse ==
    /\ [](\A f \in Fields :
            /\ loaderOk[f] <= 1
            /\ (models[f] = None <=> loaderOk[f] = 0))
    /\ [][\A f \in Fields :
            /\ loaderCalls'[f] # loaderCalls[f] =>
                  (models[f] = None /\ loaderCalls'[f] = loaderCalls[f] + 1)
            /\ models[f] # None => models'[f] = models[f]
            /\ (last'.op = "load" /\ last'.field = f) =>
                  /\ last'.outcome = "returned"
                  /\ last'.ret = models'[f]
                  /\ models[f] # None =>
                        (last'.ret = models[f] /\ loaderCalls' = loaderCalls)
                  /\ models[f] = None =>
                        loaderCalls'[f] = loaderCalls[f] + 1
                  /\ (models[f] = None /\ loaderOk'[f] = loaderOk[f]) =>
                        (models'[f] = None /\ last'.ret = None)
          ]_vars

C8_Witness ==
    \E f \in Fields :
        /\ last.op = "load"
        /\ last.field = f
        /\ last.loaded = {}
        /\ loaderCalls[f] = 2
        /\ loaderOk[f] = 1
        /\ models[f] # None
        /\ last.ret = models[f]

\* C9: when several threads call the same load_X on one instance, the
\* loader of that model succeeds at most once and all callers get the same
\* model object.
C9_SingleInitialization ==
    /\ \A f \in Fields : loaderOk[f] <= 1
    /\ \A t1, t2 \in DOMAIN tret :
          (/\ tret[t1] \notin {NoValue, None}
           /\ tret[t2] \notin {NoValue, None}
           /\ tret[t1].field = tret[t2].field) => tret[t1] = tret[t2]

\* C10: a conversion called with an argument of the wrong type raises
\* ValueError before any loader is called: the eight fields keep their
\* values.
C10_ValidationFirst ==
    [][(last'.op \in TextOps \cup ImageOps /\ ~Accepted(last'.op, last'.arg)) =>
          /\ last'.outcome = "ValueError"
          /\ last'.loaded = {}
          /\ models' = models
          /\ loaderCalls' = loaderCalls
          /\ loaderOk' = loaderOk
      ]_vars

C10_Witness ==
    /\ last.op = "image_to_audio"
    /\ last.arg = "str"
    /\ last.outcome = "ValueError"
    /\ models["text_to_audio_model"] # None
    /\ models["image_captioning_model"] = None
    /\ loaderCalls["image_captioning_model"] = 0

====
